---- MODULE Spec2Model ----
(***************************************************************************)
(* Model of the decision-and-risk engine of kalshi-edge-trader:            *)
(* trading/sizing.py, trading/edge.py, trading/risk.py,                    *)
(* trading/executor.py, the trading cycle and the start-up of main.py and  *)
(* the manual order endpoints of api/server.py.                            *)
(*                                                                         *)
(* Numbers.  The source computes in floating point; the model computes the *)
(* same expressions exactly.  Money is counted in mills (tenths of a       *)
(* cent), so that a whole-cent amount halved (per_leg_budget) is again a   *)
(* whole number.  Probabilities and quoted prices are in percent (= cents  *)
(* per $1 contract); one contract at a quote of q costs 10*q mills.        *)
(* Fractions that are not whole (the Kelly fraction) are pairs <<n, d>>.   *)
(* Where the rounding of floats decides the outcome (the sizer's floor and *)
(* actual_risk) the sizer is also modelled on binary floating point, see   *)
(* compute_contract_count_float.                                           *)
(***************************************************************************)
EXTENDS Integers, Naturals, Sequences, FiniteSets, TLC

\* ------------------------------------------------------------------------
\* Program constants (config.py), in percent
\* ------------------------------------------------------------------------
MAX_POSITION_PCT_PER_CITY == 3
MAX_OPEN_POSITIONS == 5
DAILY_STOP_LOSS_PCT == 5
KELLY_FRACTION == 25
MIN_EDGE_THRESHOLD == 5
KALSHI_FEE_RATE == 1
BRACKET_MIN_EDGE == 10
\* trading/edge.py: the gates of evaluate_market, prices in cents
MAX_SPREAD_TO_TRADE == 12
MIN_VOLUME_TO_TRADE == 5
MIN_ASK_TO_TRADE == 5
MAX_ASK_TO_TRADE == 95

\* ------------------------------------------------------------------------
\* Bounds of the model
\* ------------------------------------------------------------------------
NumCities == 2
TickersPerCity == 3
MaxTrades == 2
MaxDate == 2
MaxCount == 5
\* how far settlements may move the paper balance, mills
MaxPnl == 2000

Cities == 1..NumCities
\* a market ticker is <<city, k>>; NoTicker is the empty string of the source
Tickers == Cities \X (1..TickersPerCity)
NoTicker == <<0, 0>>
CityOf(t) == t[1]

\* account balances the broker / tracker can report, in mills ($10, $20)
Balances == {10000, 20000}
\* model probabilities, in percent, of the opportunities handed to the executor
Probs == {12, 60}

None == "None"

Max(a, b) == IF a >= b THEN a ELSE b

\* ------------------------------------------------------------------------
\* trading/edge.py : single-bin edge.  Probabilities, asks and edges are in
\* percent; an edge is the fraction <<n, d>> with d > 0.
\* ------------------------------------------------------------------------

\* a >= b, a > b and a + b for fractions
Geq(a, b) == a[1] * b[2] >= b[1] * a[2]
Gt(a, b) == a[1] * b[2] > b[1] * a[2]
Plus(a, b) == <<a[1] * b[2] + b[1] * a[2], a[2] * b[2]>>

\* compute_edge(model_prob, ask_price): the net_edge it returns,
\* raw_edge - fee_cost with fee_cost = KALSHI_FEE_RATE / ask_price
compute_edge(model_prob, ask_price) ==
    IF ask_price > 0
    THEN <<(model_prob - ask_price) * ask_price - 100 * KALSHI_FEE_RATE,
           ask_price>>
    ELSE <<model_prob - ask_price - 100, 1>>

\* TradeOpportunity.net_edge, set by evaluate_market from compute_edge
net_edge(o) == compute_edge(o.model_prob, o.ask_price)

\* TradeOpportunity.has_edge
has_edge(o) == Geq(net_edge(o), <<MIN_EDGE_THRESHOLD, 1>>)

\* list.sort(key=net_edge, reverse=True): stable, equal keys keep their order
RECURSIVE insert_by_edge(_, _)
insert_by_edge(sorted, o) ==
    IF sorted = <<>> THEN <<o>>
    ELSE IF Geq(net_edge(Head(sorted)), net_edge(o))
    THEN <<Head(sorted)>> \o insert_by_edge(Tail(sorted), o)
    ELSE <<o>> \o sorted

RECURSIVE sort_by_edge(_, _)
sort_by_edge(done, rest) ==
    IF rest = <<>> THEN done
    ELSE sort_by_edge(insert_by_edge(done, Head(rest)), Tail(rest))

\* find_opportunities(dist, markets, client, city): evaluated is the list of
\* the opportunities evaluate_market returned, in the order of the markets
find_opportunities(evaluated) == sort_by_edge(<<>>, evaluated)

\* filter_viable_opportunities that lets every opportunity through
filter_viable_all(opportunities) == opportunities

\* filter_viable_opportunities(opportunities, min_edge)
filter_viable_at(opportunities, min_edge) ==
    SelectSeq(opportunities, LAMBDA o : Geq(net_edge(o), <<min_edge, 1>>))
filter_viable_opportunities(opportunities) ==
    filter_viable_at(opportunities, MIN_EDGE_THRESHOLD)

\* ------------------------------------------------------------------------
\* trading/sizing.py
\* ------------------------------------------------------------------------

\* kelly_fraction without the cap at MAX_POSITION_PCT_PER_CITY
kelly_fraction_uncapped(model_prob, ask_price) ==
    IF 100 - ask_price <= 0 \/ ask_price <= 0 THEN <<0, 1>>
    ELSE <<KELLY_FRACTION * Max(model_prob - ask_price, 0),
           100 * (100 - ask_price)>>

\* kelly_fraction truncated to whole percents of the bankroll
kelly_fraction_whole_percent(model_prob, ask_price) ==
    IF 100 - ask_price <= 0 \/ ask_price <= 0 THEN <<0, 1>>
    ELSE LET n == KELLY_FRACTION * Max(model_prob - ask_price, 0)
             d == 100 * (100 - ask_price)
         IN  <<IF n * 100 > MAX_POSITION_PCT_PER_CITY * d
               THEN MAX_POSITION_PCT_PER_CITY ELSE (n * 100) \div d, 100>>

\* kelly_fraction(model_prob, ask_price) as a fraction <<n, d>> of bankroll
kelly_fraction(model_prob, ask_price) ==
    LET net_payout_per_dollar == 100 - ask_price
    IN  IF net_payout_per_dollar <= 0 \/ ask_price <= 0 THEN <<0, 1>>
        ELSE LET full_kelly_n == Max(model_prob - ask_price, 0)
                 \* fractional = KELLY_FRACTION * full_kelly
                 n == KELLY_FRACTION * full_kelly_n
                 d == 100 * net_payout_per_dollar
             IN  \* capped = min(fractional, MAX_POSITION_PCT_PER_CITY)
                 IF n * 100 > MAX_POSITION_PCT_PER_CITY * d
                 THEN <<MAX_POSITION_PCT_PER_CITY, 100>>
                 ELSE <<n, d>>

\* compute_contract_count(kelly_frac, current_balance, ask_price, max_dollar_risk)
\* returns <<count, actual_risk>>; ask_price in percent, money in mills;
\* computed exactly, as the executor's specifications use it
compute_contract_count(kelly_frac, current_balance, ask_price, max_dollar_risk) ==
    IF ask_price <= 0 \/ kelly_frac[1] <= 0 THEN <<0, 0>>
    ELSE LET \* dollar_risk = kelly_frac * current_balance  (= n0 / d0)
             n0 == kelly_frac[1] * current_balance
             d0 == kelly_frac[2]
             \* dollar_risk = min(dollar_risk, max_dollar_risk); max(., 0.0)
             capped == n0 > max_dollar_risk * d0
             n1 == IF capped THEN Max(max_dollar_risk, 0) ELSE n0
             d1 == IF capped THEN 1 ELSE d0
             \* count = floor(dollar_risk / ask_price)
             count == n1 \div (d1 * 10 * ask_price)
         IN  <<count, count * 10 * ask_price>>

\* ------------------------------------------------------------------------
\* Python floats: binary floating point, round to nearest, ties to even.
\* A float is <<m, e>> for m * 2^e with 2^(MantissaBits-1) <= m <
\* 2^MantissaBits, or <<0, 0>>; CPython's float has 53 bits of mantissa.
\* ------------------------------------------------------------------------
MantissaBits == 8

\* n / d (n, d > 0) scaled by 2^-e into [2^(MantissaBits-1), 2^MantissaBits)
\* and rounded
RECURSIVE fl_norm(_, _, _)
fl_norm(n, d, e) ==
    IF n >= d * 2^MantissaBits THEN fl_norm(n, 2 * d, e + 1)
    ELSE IF n < d * 2^(MantissaBits - 1) THEN fl_norm(2 * n, d, e - 1)
    ELSE LET q == n \div d
             r == n % d
             m == IF 2 * r > d \/ (2 * r = d /\ q % 2 = 1) THEN q + 1 ELSE q
         IN  IF m = 2^MantissaBits THEN <<2^(MantissaBits - 1), e + 1>>
             ELSE <<m, e>>

\* the float nearest to the rational n / d, n >= 0, d > 0: a decimal literal
\* or an integer converted to float
float(n, d) == IF n = 0 THEN <<0, 0>> ELSE fl_norm(n, d, 0)
\* the exact value of a float as a rational <<n, d>>
float_value(x) ==
    IF x[2] >= 0 THEN <<x[1] * 2^x[2], 1>> ELSE <<x[1], 2^(0 - x[2])>>
\* x * y, x / y (y > 0) and i * y for an int i, on floats x, y >= 0
float_mul(x, y) ==
    IF x[1] = 0 \/ y[1] = 0 THEN <<0, 0>>
    ELSE fl_norm(x[1] * y[1], 1, x[2] + y[2])
float_div(x, y) ==
    IF x[1] = 0 THEN <<0, 0>> ELSE fl_norm(x[1], y[1], x[2] - y[2])
int_mul(i, y) ==
    IF i = 0 \/ y[1] = 0 THEN <<0, 0>> ELSE fl_norm(i * y[1], 1, y[2])
float_leq(x, y) == Geq(float_value(y), float_value(x))
float_min(x, y) == IF float_leq(x, y) THEN x ELSE y
\* math.floor(x), x >= 0
float_floor(x) == float_value(x)[1] \div float_value(x)[2]

\* compute_contract_count on floats: the dollar_risk it sizes from,
\* min(kelly_frac * current_balance, max_dollar_risk), then max(., 0.0)
dollar_risk_float(kelly_frac, current_balance, max_dollar_risk) ==
    float_min(float_mul(kelly_frac, current_balance), max_dollar_risk)

\* compute_contract_count on floats, returns <<count, actual_risk>>; the
\* arguments are floats >= 0
compute_contract_count_float(kelly_frac, current_balance, ask_price, max_dollar_risk) ==
    IF ask_price[1] <= 0 \/ kelly_frac[1] <= 0 THEN <<0, <<0, 0>>>>
    ELSE LET dollar_risk ==
                 dollar_risk_float(kelly_frac, current_balance, max_dollar_risk)
             \* count = math.floor(dollar_risk / ask_price)
             count == float_floor(float_div(dollar_risk, ask_price))
         IN  \* actual_risk = count * ask_price
             <<count, int_mul(count, ask_price)>>

\* max_risk_for_city(city, current_balance, existing_city_exposure)
max_risk_for_city(city, current_balance, existing_city_exposure) ==
    LET budget == (MAX_POSITION_PCT_PER_CITY * current_balance) \div 100
    IN  Max(0, budget - existing_city_exposure)

\* ------------------------------------------------------------------------
\* trading/risk.py : RiskManager
\* ------------------------------------------------------------------------

\* RiskManager.__init__(starting_balance), datetime.date.today() = d
RiskInit(starting_balance, d) ==
    [day_start_balance |-> starting_balance,
     current_balance |-> starting_balance,
     kill_switch_active |-> FALSE,
     today |-> d,
     open_position_count |-> 0,
     city_exposure |-> [c \in Cities |-> 0],
     open_tickers |-> {}]

\* reset_daily(current_balance) that leaves the positions as they are
reset_daily_keeps_positions(rs, current_balance, d) ==
    [rs EXCEPT !.day_start_balance = current_balance,
               !.current_balance = current_balance,
               !.kill_switch_active = FALSE,
               !.today = d]

\* reset_daily(current_balance) on calendar date d
reset_daily(rs, current_balance, d) ==
    [day_start_balance |-> current_balance,
     current_balance |-> current_balance,
     kill_switch_active |-> FALSE,
     today |-> d,
     open_position_count |-> 0,
     city_exposure |-> [c \in Cities |-> 0],
     open_tickers |-> {}]

update_balance(rs, balance) == [rs EXCEPT !.current_balance = balance]

\* check_kill_switch(current_balance): [rs |-> new state, ret |-> returned]
check_kill_switch_unsticky(rs, current_balance) ==
    LET trig == 100 * current_balance
                  < rs.day_start_balance * (100 - DAILY_STOP_LOSS_PCT)
    IN  [rs |-> [rs EXCEPT !.kill_switch_active = trig], ret |-> trig]

check_kill_switch(rs, current_balance) ==
    IF rs.kill_switch_active THEN [rs |-> rs, ret |-> TRUE]
    ELSE LET \* current_balance < day_start * (1 - DAILY_STOP_LOSS_PCT)
             trig == 100 * current_balance
                       < rs.day_start_balance * (100 - DAILY_STOP_LOSS_PCT)
             rs2 == IF trig THEN [rs EXCEPT !.kill_switch_active = TRUE] ELSE rs
         IN  [rs |-> rs2, ret |-> rs2.kill_switch_active]

\* can_trade(city, dollar_risk, current_balance, market_ticker)
\* returns <<allowed, reason>>
can_trade_ge(rs, city, dollar_risk, current_balance, market_ticker) ==
    LET city_budget == (MAX_POSITION_PCT_PER_CITY * current_balance) \div 100
        city_used == rs.city_exposure[city]
    IN  IF rs.kill_switch_active THEN <<FALSE, "kill_switch">>
        ELSE IF rs.open_position_count >= MAX_OPEN_POSITIONS
             THEN <<FALSE, "max_positions">>
        ELSE IF market_ticker # NoTicker /\ market_ticker \in rs.open_tickers
             THEN <<FALSE, "ticker_open">>
        ELSE IF city_used + dollar_risk >= city_budget
             THEN <<FALSE, "city_budget">>
        ELSE IF dollar_risk <= 0 THEN <<FALSE, "zero_risk">>
        ELSE <<TRUE, "OK">>

can_trade_nokill(rs, city, dollar_risk, current_balance, market_ticker) ==
    LET city_budget == (MAX_POSITION_PCT_PER_CITY * current_balance) \div 100
        city_used == rs.city_exposure[city]
        absolute_max == (MAX_POSITION_PCT_PER_CITY * current_balance) \div 100
    IN  IF rs.open_position_count >= MAX_OPEN_POSITIONS
             THEN <<FALSE, "max_positions">>
        ELSE IF market_ticker # NoTicker /\ market_ticker \in rs.open_tickers
             THEN <<FALSE, "ticker_open">>
        ELSE IF city_used + dollar_risk > city_budget
             THEN <<FALSE, "city_budget">>
        ELSE IF dollar_risk > absolute_max THEN <<FALSE, "single_trade_max">>
        ELSE IF dollar_risk <= 0 THEN <<FALSE, "zero_risk">>
        ELSE <<TRUE, "OK">>

can_trade_noticker(rs, city, dollar_risk, current_balance, market_ticker) ==
    LET city_budget == (MAX_POSITION_PCT_PER_CITY * current_balance) \div 100
        city_used == rs.city_exposure[city]
        absolute_max == (MAX_POSITION_PCT_PER_CITY * current_balance) \div 100
    IN  IF rs.kill_switch_active THEN <<FALSE, "kill_switch">>
        ELSE IF rs.open_position_count >= MAX_OPEN_POSITIONS
             THEN <<FALSE, "max_positions">>
        ELSE IF city_used + dollar_risk > city_budget
             THEN <<FALSE, "city_budget">>
        ELSE IF dollar_risk > absolute_max THEN <<FALSE, "single_trade_max">>
        ELSE IF dollar_risk <= 0 THEN <<FALSE, "zero_risk">>
        ELSE <<TRUE, "OK">>

can_trade_nobudget(rs, city, dollar_risk, current_balance, market_ticker) ==
    LET city_budget == (MAX_POSITION_PCT_PER_CITY * current_balance) \div 100
        city_used == rs.city_exposure[city]
        absolute_max == (MAX_POSITION_PCT_PER_CITY * current_balance) \div 100
    IN  IF rs.kill_switch_active THEN <<FALSE, "kill_switch">>
        ELSE IF rs.open_position_count >= MAX_OPEN_POSITIONS
             THEN <<FALSE, "max_positions">>
        ELSE IF market_ticker # NoTicker /\ market_ticker \in rs.open_tickers
             THEN <<FALSE, "ticker_open">>
        ELSE IF dollar_risk > absolute_max THEN <<FALSE, "single_trade_max">>
        ELSE IF dollar_risk <= 0 THEN <<FALSE, "zero_risk">>
        ELSE <<TRUE, "OK">>

can_trade(rs, city, dollar_risk, current_balance, market_ticker) ==
    LET city_budget == (MAX_POSITION_PCT_PER_CITY * current_balance) \div 100
        city_used == rs.city_exposure[city]
        absolute_max == (MAX_POSITION_PCT_PER_CITY * current_balance) \div 100
    IN  IF rs.kill_switch_active THEN <<FALSE, "kill_switch">>
        ELSE IF rs.open_position_count >= MAX_OPEN_POSITIONS
             THEN <<FALSE, "max_positions">>
        ELSE IF market_ticker # NoTicker /\ market_ticker \in rs.open_tickers
             THEN <<FALSE, "ticker_open">>
        ELSE IF city_used + dollar_risk > city_budget
             THEN <<FALSE, "city_budget">>
        ELSE IF dollar_risk > absolute_max THEN <<FALSE, "single_trade_max">>
        ELSE IF dollar_risk <= 0 THEN <<FALSE, "zero_risk">>
        ELSE <<TRUE, "OK">>

\* register_trade(city, dollar_risk, market_ticker)
register_trade(rs, city, dollar_risk, market_ticker) ==
    [rs EXCEPT !.open_position_count = @ + 1,
               !.city_exposure[city] = @ + dollar_risk,
               !.open_tickers = IF market_ticker # NoTicker
                                THEN @ \cup {market_ticker} ELSE @]

\* close_position(city, dollar_risk, market_ticker) without the max(0, .)
close_position_unfloored(rs, city, dollar_risk, market_ticker) ==
    [rs EXCEPT !.open_position_count = @ - 1,
               !.city_exposure[city] = @ - dollar_risk,
               !.open_tickers = IF market_ticker # NoTicker
                                THEN @ \ {market_ticker} ELSE @]

\* close_position(city, dollar_risk, market_ticker)
close_position(rs, city, dollar_risk, market_ticker) ==
    [rs EXCEPT !.open_position_count = Max(0, @ - 1),
               !.city_exposure[city] = Max(0, @ - dollar_risk),
               !.open_tickers = IF market_ticker # NoTicker
                                THEN @ \ {market_ticker} ELSE @]

\* rebuild_from_open_trades(open_trades) on calendar date today, without the
\* test of the trade's date
RECURSIVE rebuild_any_date(_, _, _)
rebuild_any_date(rs, open_trades, today) ==
    IF open_trades = <<>> THEN rs
    ELSE LET trade == Head(open_trades)
         IN  rebuild_any_date(
                 [rs EXCEPT !.open_position_count = @ + 1,
                            !.city_exposure[trade.city] = @ + trade.dollar_risk,
                            !.open_tickers = IF trade.ticker # NoTicker
                                             THEN @ \cup {trade.ticker}
                                             ELSE @],
                 Tail(open_trades), today)

\* rebuild_from_open_trades(open_trades) on calendar date today
RECURSIVE rebuild_from_open_trades(_, _, _)
rebuild_from_open_trades(rs, open_trades, today) ==
    IF open_trades = <<>> THEN rs
    ELSE LET trade == Head(open_trades)
             city == trade.city
             risk_ == trade.dollar_risk
             ticker == trade.ticker
             rs1 == IF trade.trade_date = today
                    THEN [rs EXCEPT !.open_position_count = @ + 1,
                                    !.city_exposure[city] = @ + risk_,
                                    !.open_tickers = IF ticker # NoTicker
                                                     THEN @ \cup {ticker}
                                                     ELSE @]
                    ELSE rs
         IN  rebuild_from_open_trades(rs1, Tail(open_trades), today)

\* ------------------------------------------------------------------------
\* Collaborators: data/kalshi.py place_order, db/dynamo.py put_trade
\* ------------------------------------------------------------------------

\* what happens to the POST of an order: accepted; answered with an HTTP
\* error status (or no private key is configured); or requests.post itself
\* raises (connection error, timeout), or the reply is not JSON
PlaceOutcomes == {"ok", "http_error", "conn_error"}
\* what happens to the put_item of a trade
DbOutcomes == {"ok", "db_error"}

\* KalshiClient.place_order: [result |-> the returned dict or None,
\* raised |-> an exception left the method].  Only requests.HTTPError is caught.
place_order(trading_mode, outcome) ==
    CASE trading_mode = "paper" -> [result |-> "order", raised |-> FALSE]
      [] outcome = "ok" -> [result |-> "order", raised |-> FALSE]
      [] outcome = "http_error" -> [result |-> None, raised |-> FALSE]
      [] outcome = "conn_error" -> [result |-> None, raised |-> TRUE]

\* DynamoClient.put_trade(trade) on UTC date d: the item written.  The item
\* is built from a fixed list of keys; trade_id is the row's position here.
put_trade(table, trade, d) ==
    Append(table, [trade_id |-> Len(table) + 1,
                   trade_date |-> d,
                   city |-> trade.city,
                   ticker |-> trade.ticker,
                   dollar_risk |-> trade.dollar_risk,
                   resolved |-> FALSE])

\* DynamoClient.mark_trade_resolved(trade_id, ...)
mark_trade_resolved(table, trade_id) ==
    [i \in 1..Len(table) |->
        IF table[i].trade_id = trade_id
        THEN [table[i] EXCEPT !.resolved = TRUE] ELSE table[i]]

\* DynamoClient.get_open_trades(): the rows with resolved = False
get_open_trades(table) == {i \in 1..Len(table) : ~table[i].resolved}

\* ------------------------------------------------------------------------
\* trading/executor.py : TradeExecutor
\* A world w is [risk, balance (TradeExecutor.current_balance), db, placed,
\* date, held, mode]; io is [place, persist], the collaborators' outcomes during a call.
\* Every method returns [w, ret, raised, events].
\* ------------------------------------------------------------------------

\* the quotes of the markets: ask in cents of the k-th market of a city
AskOf(t) == IF t[2] = 2 THEN 25 ELSE 10
Opp(t, p) == [ticker |-> t, model_prob |-> p, ask_price |-> AskOf(t)]
OppsOf(city) == {Opp(t, p) : t \in {u \in Tickers : CityOf(u) = city}, p \in Probs}

\* an Optional value: Nothing is Python's None, Some(x) a value that is not
Nothing == <<>>
Some(x) == <<x>>
\* budget_override = None, bracket_id = None, trade_id = "log-failed"
NoOverride == -1
NoBracket == 0
LogFailed == 0

Outcome(w, ret, raised, events) ==
    [w |-> w, ret |-> ret, raised |-> raised, events |-> events]
After(events, r) == [r EXCEPT !.events = events \o @]

\* step 1 of execute_opportunity: <<k_frac, count, dollar_risk>>
exec_sizing(w, opp, city, budget_override) ==
    LET k_frac == kelly_fraction(opp.model_prob, opp.ask_price)
        city_remaining ==
            IF budget_override # NoOverride THEN budget_override
            ELSE max_risk_for_city(city, w.balance, w.risk.city_exposure[city])
        cc == compute_contract_count(k_frac, w.balance, opp.ask_price,
                                     city_remaining)
    IN  <<k_frac, cc[1], cc[2]>>

\* step 4 of execute_opportunity, the try/except around put_trade:
\* [db, trade_id, raised]
log_trade_raises(w, trade_record, persist) ==
    IF persist = "ok"
    THEN [db |-> put_trade(w.db, trade_record, w.date),
          trade_id |-> Len(w.db) + 1, raised |-> FALSE]
    ELSE [db |-> w.db, trade_id |-> LogFailed, raised |-> TRUE]

log_trade(w, trade_record, persist) ==
    IF persist = "ok"
    THEN [db |-> put_trade(w.db, trade_record, w.date),
          trade_id |-> Len(w.db) + 1, raised |-> FALSE]
    ELSE [db |-> w.db, trade_id |-> LogFailed, raised |-> FALSE]

\* steps 3-5 of execute_opportunity: place the order, log it, register it
exec_place(w, opp, city, strategy, bracket_id, sz, io) ==
    LET order_result == place_order(w.mode, io.place)
        trade_record == [city |-> city, ticker |-> opp.ticker,
                         count |-> sz[2], dollar_risk |-> sz[3],
                         strategy |-> strategy, bracket_id |-> bracket_id]
        w1 == [w EXCEPT !.placed = @ + 1]
        lg == log_trade(w1, trade_record, io.persist)
        w2 == [w1 EXCEPT !.db = lg.db]
        w3 == [w2 EXCEPT !.risk = register_trade(w2.risk, city, sz[3], opp.ticker),
                         !.held[opp.ticker] = @ + 1]
    IN  IF order_result.raised
        THEN Outcome(w, Nothing, TRUE, <<"place_order">>)
        ELSE IF order_result.result = None
        THEN Outcome(w, Nothing, FALSE, <<"place_order">>)
        ELSE IF lg.raised  \* an exception leaving step 4 would leave the method
        THEN Outcome(w2, Nothing, TRUE, <<"place_order", "put_trade">>)
        ELSE Outcome(w3,
                     Some([trade_id |-> lg.trade_id, ticker |-> opp.ticker,
                           model_prob |-> opp.model_prob,
                           city |-> city, count |-> sz[2],
                           dollar_risk |-> sz[3], strategy |-> strategy,
                           bracket_id |-> bracket_id]),
                     FALSE,
                     <<"place_order", "put_trade", "register_trade">>)

\* execute_opportunity(opp, city, strategy, bracket_id, budget_override)
execute_opportunity_ungated(w, opp, city, strategy, bracket_id, budget_override, io) ==
    CHOOSE out \in
      { IF sz[2] < 1 THEN Outcome(w, Nothing, FALSE, <<>>)
        ELSE exec_place(w, opp, city, strategy, bracket_id, sz, io)
        : sz \in {exec_sizing(w, opp, city, budget_override)} } : TRUE

execute_opportunity(w, opp, city, strategy, bracket_id, budget_override, io) ==
    CHOOSE out \in
      { IF sz[2] < 1 THEN Outcome(w, Nothing, FALSE, <<>>)
        ELSE IF ~can_trade(w.risk, city, sz[3], w.balance, opp.ticker)[1]
        THEN Outcome(w, Nothing, FALSE, <<"can_trade">>)
        ELSE After(<<"can_trade">>,
                   exec_place(w, opp, city, strategy, bracket_id, sz, io))
        : sz \in {exec_sizing(w, opp, city, budget_override)} } : TRUE

\* execute_city_opportunities that takes the last of the list
execute_city_opportunities_last(w, city, opportunities, io) ==
    IF opportunities = <<>> THEN Outcome(w, <<>>, FALSE, <<>>)
    ELSE IF w.risk.kill_switch_active THEN Outcome(w, <<>>, FALSE, <<>>)
    ELSE execute_opportunity(w, opportunities[Len(opportunities)], city,
                             "single", NoBracket, NoOverride, io)

\* execute_city_opportunities(city, opportunities): ret is the list returned,
\* the summary of the best opportunity's trade or nothing
execute_city_opportunities(w, city, opportunities, io) ==
    IF opportunities = <<>> THEN Outcome(w, <<>>, FALSE, <<>>)
    ELSE IF w.risk.kill_switch_active THEN Outcome(w, <<>>, FALSE, <<>>)
    ELSE LET best == opportunities[1]
         IN  execute_opportunity(w, best, city, "single", NoBracket,
                                 NoOverride, io)

\* the second leg of a bracket, called once the first has returned r1
bracket_leg2(r1, leg, city, shared_bracket_id, per_leg_budget, io2) ==
    CHOOSE out \in
      { IF r2.raised
        THEN Outcome(r2.w, Nothing, TRUE, r1.events \o r2.events)
        ELSE Outcome(r2.w,
                     IF r1.ret \o r2.ret = <<>> THEN Nothing
                     ELSE Some(r1.ret \o r2.ret),
                     FALSE, r1.events \o r2.events)
        : r2 \in {execute_opportunity(r1.w, leg, city, "bracket",
                                      shared_bracket_id, per_leg_budget,
                                      io2)} } : TRUE

\* execute_bracket_opportunity(bracket, city): bracket is the pair of legs;
\* the uuid4 is modelled by the number of the next order
execute_bracket_opportunity(w, bracket, city, io1, io2) ==
    IF w.risk.kill_switch_active THEN Outcome(w, Nothing, FALSE, <<>>)
    ELSE LET shared_bracket_id == w.placed + 1
             city_remaining == max_risk_for_city(city, w.balance,
                                                 w.risk.city_exposure[city])
             per_leg_budget == city_remaining \div 2
         IN  CHOOSE out \in
               { IF r1.raised THEN r1
                 ELSE bracket_leg2(r1, bracket[2], city, shared_bracket_id,
                                   per_leg_budget, io2)
                 : r1 \in {execute_opportunity(w, bracket[1], city, "bracket",
                                               shared_bracket_id,
                                               per_leg_budget, io1)} } : TRUE

\* the bracket part of execute_city_with_bracket, entered once the single
\* part has returned rs
with_bracket_part(rs, city, bracket_opps, io1, io2) ==
    IF bracket_opps = <<>> THEN rs
    ELSE CHOOSE out \in
           { IF rb.raised
             THEN Outcome(rb.w, Nothing, TRUE, rs.events \o rb.events)
             ELSE Outcome(rb.w,
                          rs.ret \o (IF rb.ret # Nothing THEN rb.ret[1]
                                     ELSE <<>>),
                          FALSE, rs.events \o rb.events)
             : rb \in {execute_bracket_opportunity(rs.w, bracket_opps[1],
                                                   city, io1, io2)} } : TRUE

\* execute_city_with_bracket(city, single_opps, bracket_opps)
execute_city_with_bracket(w, city, single_opps, bracket_opps, io0, io1, io2) ==
    IF w.risk.kill_switch_active THEN Outcome(w, <<>>, FALSE, <<>>)
    ELSE CHOOSE out \in
           { IF rs.raised THEN rs
             ELSE with_bracket_part(rs, city, bracket_opps, io1, io2)
             : rs \in {execute_city_opportunities(w, city, single_opps,
                                                  io0)} } : TRUE

\* ------------------------------------------------------------------------
\* State
\* ------------------------------------------------------------------------
VARIABLES
    risk,          \* the RiskManager shared by main.py and api/server.py
    exec_balance,  \* TradeExecutor.current_balance
    acct_balance,  \* what PortfolioTracker.sync_balance() returns
    date,          \* datetime.date.today()
    db,            \* the trades table: sequence of TradeRecords
    placed,        \* number of orders accepted by the broker
    held,          \* per ticker: trades registered and not closed since
    cyc,           \* position of trading_cycle: [pc, idx, done_cities]
    thr,           \* statement-level position of two racing RiskState calls
    mode,          \* config.TRADING_MODE
    last           \* the last call: [op, args, ret, raised, events]

vars == <<risk, exec_balance, acct_balance, date, db, placed, held, cyc, thr,
          mode, last>>

NoLast == [op |-> "none", args |-> <<>>, ret |-> Nothing, raised |-> FALSE,
           events |-> <<>>]
Call(op, args, ret) == [op |-> op, args |-> args, ret |-> ret, raised |-> FALSE,
                        events |-> <<>>]
CycIdle == [pc |-> "idle", idx |-> 0, done_cities |-> {}, failed |-> {}]
ThrIdle == [pcA |-> "idle", pcB |-> "idle", tmpA |-> 0, tmpB |-> 0,
            argA |-> <<>>, argB |-> <<>>, base |-> <<>>]
NoneHeld == [t \in Tickers |-> 0]

\* ------------------------------------------------------------------------
\* SpecRisk: the RiskManager driven method by method
\* ------------------------------------------------------------------------
\* dollar_risk arguments, in mills
RiskAmounts == {300, 600}
ExposureCap == 600

\* ticker arguments of the direct calls: the city's first market, or none
TickerArgs(city) == {<<city, 1>>, NoTicker}

RiskFrame ==
    UNCHANGED <<exec_balance, acct_balance, date, db, placed, held, cyc, thr, mode>>

InitRisk ==
    /\ \E b \in Balances : risk = RiskInit(b, 1)
    /\ exec_balance = 0
    /\ acct_balance = 0
    /\ date = 1
    /\ db = <<>>
    /\ placed = 0
    /\ held = NoneHeld
    /\ cyc = CycIdle
    /\ thr = ThrIdle
    /\ mode = "paper"
    /\ last = NoLast

RM_ResetDaily ==
    \E b \in Balances :
        /\ risk' = reset_daily(risk, b, date)
        /\ last' = Call("reset_daily",
                        <<b, risk.kill_switch_active, risk.open_position_count>>,
                        Nothing)
        /\ RiskFrame

RM_UpdateBalance ==
    \E b \in Balances :
        /\ risk' = update_balance(risk, b)
        /\ last' = Call("update_balance", <<b>>, Nothing)
        /\ RiskFrame

RM_CheckKillSwitch ==
    \E b \in Balances :
        LET r == check_kill_switch(risk, b)
        IN  /\ risk' = r.rs
            /\ last' = Call("check_kill_switch", <<b>>, Some(r.ret))
            /\ RiskFrame

RM_CanTrade ==
    \E city \in Cities, dr \in RiskAmounts \cup {0}, b \in Balances :
      \E t \in TickerArgs(city) :
        /\ risk' = risk
        /\ last' = Call("can_trade", <<city, dr, b, t>>,
                        can_trade(risk, city, dr, b, t))
        /\ RiskFrame

RM_RegisterTrade ==
    \E city \in Cities, dr \in RiskAmounts :
      \E t \in TickerArgs(city) :
        /\ risk.open_position_count < MaxCount
        /\ risk.city_exposure[city] + dr <= ExposureCap
        /\ risk' = register_trade(risk, city, dr, t)
        /\ last' = Call("register_trade", <<>>, Nothing)
        /\ RiskFrame

RM_ClosePosition ==
    \E city \in Cities, dr \in RiskAmounts :
      \E t \in TickerArgs(city) :
        /\ risk' = close_position(risk, city, dr, t)
        /\ last' = Call("close_position",
                        <<city, dr, risk.city_exposure[city],
                          risk.open_position_count>>, Nothing)
        /\ RiskFrame

NextRisk ==
    \/ RM_ResetDaily
    \/ RM_UpdateBalance
    \/ RM_CheckKillSwitch
    \/ RM_CanTrade
    \/ RM_RegisterTrade
    \/ RM_ClosePosition

SpecRisk == InitRisk /\ [][NextRisk]_vars

\* ------------------------------------------------------------------------
\* Claims checked under SpecRisk
\* ------------------------------------------------------------------------

\* C1: once check_kill_switch has returned true (the flag is then set), every
\* later check_kill_switch returns true whatever balance it is given, and no
\* step other than reset_daily takes the kill-switch flag from true to false.
C1_KillSwitchSticky ==
    /\ [](last.op = "check_kill_switch" /\ last.ret = Some(TRUE)
            => risk.kill_switch_active)
    /\ [][risk.kill_switch_active =>
            /\ (last'.op = "check_kill_switch" => last'.ret = Some(TRUE))
            /\ (last'.op # "reset_daily" => risk'.kill_switch_active)]_vars

\* a sticky answer: the switch is on and check_kill_switch has just returned
\* true for a balance that is back at or above the day-start balance
C1_Witness ==
    /\ last.op = "check_kill_switch"
    /\ last.ret = Some(TRUE)
    /\ last.args[1] >= risk.day_start_balance
    /\ risk.kill_switch_active

\* the five refusal conditions of can_trade as the specification lists them
Refusal(rs, city, dollar_risk, balance, ticker) ==
    \/ rs.kill_switch_active
    \/ rs.open_position_count >= MAX_OPEN_POSITIONS
    \/ ticker \in rs.open_tickers
    \/ 100 * (rs.city_exposure[city] + dollar_risk)
         > MAX_POSITION_PCT_PER_CITY * balance
    \/ dollar_risk <= 0

\* C5: can_trade does not raise and leaves RiskState as it was; it refuses,
\* with a reason, exactly when one of the five refusal conditions holds and
\* allows the trade in every other case.
C5_CanTradeExact ==
    /\ [](last.op = "can_trade" =>
            /\ ~last.raised
            /\ last.ret[1] = ~Refusal(risk, last.args[1], last.args[2],
                                      last.args[3], last.args[4])
            /\ (last.ret[2] = "OK") = last.ret[1])
    /\ [][last'.op = "can_trade" => risk' = risk]_vars

\* can_trade has allowed a trade that fills the city's budget exactly
C5_Witness ==
    /\ last.op = "can_trade"
    /\ last.ret[1] = TRUE
    /\ risk.city_exposure[last.args[1]] > 0
    /\ 100 * (risk.city_exposure[last.args[1]] + last.args[2])
         = MAX_POSITION_PCT_PER_CITY * last.args[3]

\* C13: from any RiskState, reset_daily(balance) leaves day-start balance =
\* current balance = balance, the kill switch off, the open-position count 0,
\* every city's exposure 0 and the open-ticker set empty.
C13_ResetDailyClears ==
    last.op = "reset_daily" =>
        /\ risk.day_start_balance = last.args[1]
        /\ risk.current_balance = last.args[1]
        /\ ~risk.kill_switch_active
        /\ risk.open_position_count = 0
        /\ \A c \in Cities : risk.city_exposure[c] = 0
        /\ risk.open_tickers = {}

\* a reset of a state whose kill switch was on, with positions open, to a
\* balance other than the one the day had started with
C13_Witness ==
    /\ last.op = "reset_daily"
    /\ last.args[2]
    /\ last.args[3] > 0
    /\ risk.day_start_balance = 10000
    /\ ~risk.kill_switch_active
    /\ risk.open_position_count = 0

\* C14: after any sequence of register_trade and close_position calls, with
\* any number of closures, every city's exposure and the open-position count
\* are at least 0.
C14_NeverNegative ==
    /\ risk.open_position_count >= 0
    /\ \A c \in Cities : risk.city_exposure[c] >= 0

\* a closure with nothing open: of more dollars than the city had at risk,
\* with the count already 0
C14_Witness ==
    /\ last.op = "close_position"
    /\ last.args[3] < last.args[2]
    /\ last.args[4] = 0
    /\ risk.city_exposure[last.args[1]] = 0
    /\ risk.open_position_count = 0

\* ------------------------------------------------------------------------
\* SpecExec: the TradeExecutor's methods and the manual order endpoints,
\* called in any order at a fixed balance on one calendar day
\* ------------------------------------------------------------------------
Modes == {"paper", "live"}

World == [risk |-> risk, balance |-> exec_balance, db |-> db,
          placed |-> placed, date |-> date, held |-> held, mode |-> mode]

\* outcomes of the collaborators during one execute_opportunity; in paper
\* mode no request is sent, so there is no failure of one to choose
IOs == {[place |-> "ok", persist |-> d] : d \in DbOutcomes}
         \cup {[place |-> q, persist |-> "ok"] :
                  q \in IF mode = "paper" THEN {} ELSE PlaceOutcomes \ {"ok"}}
IOok == [place |-> "ok", persist |-> "ok"]
\* during a call that runs execute_opportunity three times: the single
\* trade's collaborators fail, or the bracket legs' do, or none
IOTriples == {<<i, IOok, IOok>> : i \in IOs} \cup {<<IOok, i, i>> : i \in IOs}

\* explicit budget_override arguments, in mills
Overrides == {600}

\* what evaluate_market returns for the markets of a city, in the order of
\* the markets: one opportunity, or a strong one and a weak one on the next
\* market, either of them first
EvaluatedLists(city) ==
    {<<o>> : o \in OppsOf(city)}
      \cup UNION {{<<o, Opp(<<city, (o.ticker[2] % TickersPerCity) + 1>>, 12)>>,
                   <<Opp(<<city, (o.ticker[2] % TickersPerCity) + 1>>, 12), o>>} :
                     o \in {x \in OppsOf(city) : x.model_prob = 60}}
\* opportunity lists as find_opportunities returns them, best first
OppLists(city) == {find_opportunities(l) : l \in EvaluatedLists(city)}
\* a bracket: two adjacent bins as the legs, lower bin first
Brackets(city) ==
    {<<Opp(<<city, k>>, p), Opp(<<city, k + 1>>, p)>> :
        k \in 1..(TickersPerCity - 1), p \in Probs}

Commit(op, args, r) ==
    /\ risk' = r.w.risk
    /\ db' = r.w.db
    /\ placed' = r.w.placed
    /\ held' = r.w.held
    /\ last' = [op |-> op, args |-> args, ret |-> r.ret, raised |-> r.raised,
                events |-> r.events]

ExecFrame == UNCHANGED <<exec_balance, acct_balance, date, cyc, thr, mode>>

\* the opportunities with an edge worth a contract
GoodOpps(city) == {o \in OppsOf(city) : o.model_prob = 60}
GoodBrackets(city) == {b \in Brackets(city) : b[1].model_prob = 60}

ExecuteOpportunity ==
    /\ cyc.pc = "idle"
    /\ placed < MaxTrades
    /\ \E city \in Cities, bo \in {NoOverride} \cup Overrides, io \in IOs,
          w \in {World} :
         \E opp \in OppsOf(city) :
           \E sz \in {exec_sizing(w, opp, city, bo)},
              r \in {execute_opportunity(w, opp, city, "single", NoBracket,
                                         bo, io)} :
             Commit("execute_opportunity",
                    <<sz[2],
                      can_trade(risk, city, sz[3], exec_balance, opp.ticker),
                      io, opp.ticker>>, r)
    /\ ExecFrame

ExecuteCityOpportunities ==
    /\ cyc.pc = "idle"
    /\ placed < MaxTrades
    /\ \E city \in Cities, io \in IOs, w \in {World} :
         \E opps \in OppLists(city) \cup {<<>>} :
           \E r \in {execute_city_opportunities(w, city, opps, io)} :
             Commit("execute_city_opportunities", <<opps>>, r)
    /\ ExecFrame

ExecuteBracketOpportunity ==
    /\ cyc.pc = "idle"
    /\ placed < MaxTrades
    /\ \E city \in Cities, io1 \in IOs, io2 \in IOs, w \in {World} :
         \E bracket \in Brackets(city) :
           \E r \in {execute_bracket_opportunity(w, bracket, city, io1, io2)} :
             Commit("execute_bracket_opportunity", <<>>, r)
    /\ ExecFrame

ExecuteCityWithBracket ==
    /\ cyc.pc = "idle"
    /\ placed < MaxTrades
    /\ \E city \in Cities, ios \in IOTriples, w \in {World} :
         \E opps \in {<<o>> : o \in {x \in OppsOf(city) : x.ticker[2] = 1}}
                        \cup {<<>>},
            brs \in {<<b>> : b \in GoodBrackets(city)} \cup {<<>>} :
           \E r \in {execute_city_with_bracket(w, city, opps, brs,
                                                ios[1], ios[2], ios[3])} :
             Commit("execute_city_with_bracket", <<>>, r)
    /\ ExecFrame

\* api/server.py cancel_order(order_id, trade_id), past the broker's cancel:
\* the open trade with that id is marked resolved and its position closed.
\* A call that matches no open trade, or dies with HTTP 500, changes nothing.
cancel_order(w, trade_id) ==
    LET open_trades == get_open_trades(w.db)
        matched == {i \in open_trades : w.db[i].trade_id = trade_id}
        m == CHOOSE i \in matched : TRUE
    IN  IF matched = {} THEN w
        ELSE [w EXCEPT
                !.db = mark_trade_resolved(w.db, trade_id),
                !.risk = close_position(w.risk, w.db[m].city,
                                        w.db[m].dollar_risk, w.db[m].ticker),
                !.held[w.db[m].ticker] = 0]

\* api/server.py limit_sell(ticker, body): in paper mode the trade is marked
\* resolved and its position closed; otherwise a sell order is placed and
\* nothing else changes
limit_sell(w, trade_id) ==
    LET open_trades == get_open_trades(w.db)
        matched == {i \in open_trades : w.db[i].trade_id = trade_id}
        m == CHOOSE i \in matched : TRUE
    IN  IF matched = {} THEN w
        ELSE IF w.mode = "paper"
        THEN [w EXCEPT
                !.db = mark_trade_resolved(w.db, trade_id),
                !.risk = close_position(w.risk, w.db[m].city,
                                        w.db[m].dollar_risk, w.db[m].ticker),
                !.held[w.db[m].ticker] = 0]
        ELSE w

\* the trade_id arguments that match an open trade
OpenTradeIds == {db[i].trade_id : i \in get_open_trades(db)}

CancelOrder ==
    /\ \E trade_id \in OpenTradeIds :
         Commit("cancel_order", <<>>,
                Outcome(cancel_order(World, trade_id), Nothing, FALSE, <<>>))
    /\ ExecFrame

LimitSell ==
    /\ \E trade_id \in OpenTradeIds :
         Commit("limit_sell", <<>>,
                Outcome(limit_sell(World, trade_id), Nothing, FALSE, <<>>))
    /\ ExecFrame

InitExec ==
    /\ exec_balance = 20000
    /\ acct_balance = exec_balance
    /\ date = 1
    /\ risk = RiskInit(exec_balance, date)
    /\ db = <<>>
    /\ placed = 0
    /\ held = NoneHeld
    /\ cyc = CycIdle
    /\ thr = ThrIdle
    /\ mode \in Modes
    /\ last = NoLast

NextExec ==
    \/ ExecuteOpportunity
    \/ ExecuteCityOpportunities
    \/ ExecuteBracketOpportunity
    \/ ExecuteCityWithBracket
    \/ CancelOrder
    \/ LimitSell

SpecExec == InitExec /\ [][NextExec]_vars

\* ------------------------------------------------------------------------
\* Properties of SpecExec
\* ------------------------------------------------------------------------
ExecOps == {"execute_opportunity", "execute_city_opportunities",
            "execute_bracket_opportunity", "execute_city_with_bracket"}

\* C3: at a fixed balance, whatever single and bracket executions and
\* closures have run, every city's exposure is at most
\* MAX_POSITION_PCT_PER_CITY x balance
C3_CityExposureCapped ==
    \A c \in Cities :
        100 * risk.city_exposure[c] <= MAX_POSITION_PCT_PER_CITY * exec_balance

\* one call registered a single trade and both legs of a bracket for a city
C3_Witness ==
    /\ last.op = "execute_city_with_bracket"
    /\ Len(last.ret) = 3
    /\ risk.city_exposure[last.ret[1].city]
         = last.ret[1].dollar_risk + last.ret[2].dollar_risk
             + last.ret[3].dollar_risk

\* C4: no ticker is registered twice without a close_position for it in
\* between, so no order goes to a ticker that has an open position
C4_NoDoubleRegistration ==
    /\ [](\A t \in Tickers : held[t] <= 1)
    /\ [][last'.op = "execute_opportunity"
            /\ last'.args[4] \in risk.open_tickers
          => placed' = placed /\ risk' = risk]_vars

\* an execution on a ticker with an open position was refused for that reason
C4_Witness ==
    /\ last.op = "execute_opportunity"
    /\ last.args[1] >= 1
    /\ last.args[2] = <<FALSE, "ticker_open">>
    /\ held[last.args[4]] = 1

\* the call got as far as asking the broker, and the broker's request failed
PlacementFailed(l) ==
    /\ l.op = "execute_opportunity"
    /\ l.args[1] >= 1
    /\ l.args[2][1]
    /\ mode # "paper"
    /\ l.args[3].place # "ok"

\* C6: when order placement fails, execute_opportunity returns nothing
\* without raising, persists no TradeRecord and leaves the open-position
\* count, the per-city exposure and the open-ticker set unchanged
C6_PlacementFailureIsQuiet ==
    [][PlacementFailed(last')
         => /\ ~last'.raised
            /\ last'.ret = Nothing
            /\ db' = db
            /\ risk' = risk]_vars

\* the order went out and the put_item of its TradeRecord failed
PersistFailed(l) ==
    /\ l.op = "execute_opportunity"
    /\ l.args[1] >= 1
    /\ l.args[2][1]
    /\ (mode = "paper" \/ l.args[3].place = "ok")
    /\ l.args[3].persist = "db_error"

\* C7: when persisting the TradeRecord fails after the order was placed,
\* execute_opportunity does not raise, registers the trade (count + 1, city
\* exposure + dollar_risk, ticker added) and returns the trade's summary
C7_PersistFailureStillRegisters ==
    [][PersistFailed(last')
         => /\ ~last'.raised
            /\ last'.ret # Nothing
            /\ placed' = placed + 1
            /\ db' = db
            /\ LET t == last'.ret[1] IN
                 /\ t.count = last'.args[1]
                 /\ t.dollar_risk > 0
                 /\ risk'.open_position_count = risk.open_position_count + 1
                 /\ risk'.city_exposure =
                      [risk.city_exposure EXCEPT ![t.city] = @ + t.dollar_risk]
                 /\ risk'.open_tickers = risk.open_tickers \cup {t.ticker}]_vars

C7_Witness ==
    /\ PersistFailed(last)
    /\ last.ret # Nothing
    /\ last.ret[1].trade_id = LogFailed
    /\ last.ret[1].ticker \in risk.open_tickers
    /\ db = <<>>

\* C8: when the contract count is below 1 or can_trade refuses,
\* execute_opportunity places no order, persists nothing, leaves RiskState
\* unchanged and returns nothing; and no order is placed by any executor
\* method without can_trade having been asked just before
C8_NoOpWhenRefused ==
    /\ [][last'.op = "execute_opportunity"
            /\ (last'.args[1] < 1 \/ ~last'.args[2][1])
          => /\ placed' = placed
             /\ db' = db
             /\ risk' = risk
             /\ last'.ret = Nothing
             /\ ~last'.raised
             /\ \A i \in 1..Len(last'.events) :
                  last'.events[i] # "place_order"]_vars
    /\ [](last.op \in ExecOps
            => \A i \in 1..Len(last.events) :
                 last.events[i] = "place_order"
                   => i > 1 /\ last.events[i - 1] = "can_trade")

\* can_trade refused a trade of at least one contract for the city's budget
C8_Witness ==
    /\ last.op = "execute_opportunity"
    /\ last.args[1] >= 1
    /\ last.args[2] = <<FALSE, "city_budget">>
    /\ last.ret = Nothing

\* C15: execute_bracket gives each leg half of the city's remaining budget
\* computed once before the first leg, attempts the second leg whether or not
\* the first one filled, keeps a filled leg registered when the other leg
\* fails, and returns exactly the legs that filled: whatever the collaborators
\* do, the call ends as the two execute_opportunity calls in sequence end, and
\* returns their summaries.
C15_BracketLegsIndependent ==
    \A city \in Cities, io1 \in IOs, io2 \in IOs :
      \A bracket \in Brackets(city) :
        \A w \in {World} :
          \A b \in {max_risk_for_city(city, w.balance,
                                       w.risk.city_exposure[city]) \div 2} :
            \A r1 \in {execute_opportunity(w, bracket[1], city, "bracket",
                                            w.placed + 1, b, io1)} :
              \A r2 \in {execute_opportunity(r1.w, bracket[2], city, "bracket",
                                              w.placed + 1, b, io2)} :
                \A r \in {execute_bracket_opportunity(w, bracket, city,
                                                      io1, io2)} :
                  /\ ~r.raised
                  /\ r.w = r2.w
                  /\ r.ret = IF r1.ret \o r2.ret = <<>> THEN Nothing
                             ELSE Some(r1.ret \o r2.ret)

\* C17: every TradeRecord held by the store for an executed trade carries the
\* strategy tag it was executed under ("single" or "bracket"); the records of
\* the two legs of one bracket carry the same bracket identifier, and a single
\* trade's record carries none.
C17_RecordsCarryStrategy ==
    \A i \in 1..Len(db) :
      /\ "strategy" \in DOMAIN db[i]
      /\ "bracket_id" \in DOMAIN db[i]
      /\ db[i].strategy \in {"single", "bracket"}
      /\ db[i].strategy = "single" <=> db[i].bracket_id = NoBracket

AcctBalances == {18000, 20000, 24000}

\* the prologue with the daily reset done in every cycle
cycle_prologue_resets_always(rs, today, balance, forecasts_ok) ==
    LET rs1 == reset_daily(rs, balance, today)
        rs2 == update_balance(rs1, balance)
        k == check_kill_switch(rs2, balance)
    IN  [risk |-> k.rs, balance |-> balance,
         enter |-> ~k.ret /\ forecasts_ok]

\* trading_cycle up to the city loop: daily reset check, balance sync, kill
\* switch check, forecast download.
\* [risk, balance, enter |-> the loop over the cities is entered]
cycle_prologue(rs, today, balance, forecasts_ok) ==
    LET rs1 == IF rs.today # today THEN reset_daily(rs, balance, today) ELSE rs
        rs2 == update_balance(rs1, balance)
        k == check_kill_switch(rs2, balance)
    IN  [risk |-> k.rs, balance |-> balance,
         enter |-> ~k.ret /\ forecasts_ok]

\* what the body of the loop meets for one city before it executes
CityOutcomes == {"no_forecast", "markets_error", "no_markets", "no_viable"}

\* one iteration of the loop over CITIES; viable = <<>> stands for the
\* iterations that `continue` before the executor is called
cycle_city(w, city, viable, io) ==
    IF viable = <<>> THEN Outcome(w, <<>>, FALSE, <<>>)
    ELSE execute_city_opportunities(w, city, viable, io)

CycleStart ==
    /\ cyc.pc = "idle"
    /\ placed < MaxTrades
    /\ \E forecasts_ok \in BOOLEAN :
         LET pr == cycle_prologue(risk, date, acct_balance, forecasts_ok)
         IN  /\ risk' = pr.risk
             /\ exec_balance' = pr.balance
             /\ cyc' = IF pr.enter
                       THEN [pc |-> "city", idx |-> 1, done_cities |-> {},
                             failed |-> {}]
                       ELSE CycIdle
             /\ last' = [op |-> "trading_cycle",
                         args |-> <<IF pr.enter THEN "loop" ELSE "skipped",
                                    {}, {}>>,
                         ret |-> Nothing, raised |-> FALSE, events |-> <<>>]
    /\ UNCHANGED <<acct_balance, date, db, placed, held, thr, mode>>

\* the cycle leaves the loop: after the last city, or with the exception
\* that left an iteration
CycleStep(city, fails, r) ==
    LET done == cyc.done_cities \cup (IF r.raised THEN {} ELSE {city})
        failed == cyc.failed \cup (IF fails THEN {city} ELSE {})
    IN  /\ risk' = r.w.risk
        /\ db' = r.w.db
        /\ placed' = r.w.placed
        /\ held' = r.w.held
        /\ IF r.raised \/ city = NumCities
           THEN /\ cyc' = CycIdle
                /\ last' = [op |-> "trading_cycle",
                            args |-> <<"done", done, failed>>,
                            ret |-> r.ret, raised |-> r.raised,
                            events |-> <<>>]
           ELSE /\ cyc' = [pc |-> "city", idx |-> city + 1,
                           done_cities |-> done, failed |-> failed]
                /\ last' = [op |-> "trading_cycle",
                            args |-> <<"loop", done, failed>>,
                            ret |-> r.ret, raised |-> FALSE,
                            events |-> <<>>]
        /\ UNCHANGED <<exec_balance, acct_balance, date, thr, mode>>

\* an iteration that ends in `continue`
CycleCitySkip ==
    /\ cyc.pc = "city"
    /\ \E kind \in CityOutcomes :
         \E r \in {cycle_city(World, cyc.idx, <<>>, IOok)} :
           CycleStep(cyc.idx, kind = "markets_error", r)

\* model probabilities of a city's first market in a cycle: net edge of
\* 4%, of 5% and of 40% at its ask
CycleProbs == {24, 25, 60}
\* what evaluate_market returns for the markets of a city, in their order
CycleEvaluated(city) ==
    {<<Opp(<<city, 1>>, p)>> : p \in CycleProbs}
      \cup {<<Opp(<<city, 1>>, p), Opp(<<city, 2>>, 60)>> : p \in {12, 25}}
\* what filter_viable_opportunities returns for a city, best first, when it
\* returns any
CycleViable(city) ==
    {filter_viable_opportunities(find_opportunities(l)) :
        l \in CycleEvaluated(city)} \ {<<>>}

\* an iteration that reaches execute_city_opportunities
CycleCityExecute ==
    /\ cyc.pc = "city"
    /\ \E viable \in CycleViable(cyc.idx), io \in IOs :
         \E r \in {cycle_city(World, cyc.idx, viable, io)} :
           CycleStep(cyc.idx,
                     (mode # "paper" /\ io.place # "ok") \/ io.persist # "ok",
                     r)

\* the account balance moves: fills, settlements, deposits
BalanceMove ==
    /\ cyc.pc = "idle"  \* the balance is read at the start of a cycle only
    /\ \E b \in AcctBalances \ {acct_balance} : acct_balance' = b
    /\ UNCHANGED <<risk, exec_balance, date, db, placed, held, cyc, thr, mode,
                   last>>

\* midnight
NewDay ==
    /\ date < MaxDate
    /\ date' = date + 1
    /\ UNCHANGED <<risk, exec_balance, acct_balance, db, placed, held, cyc, thr,
                   mode, last>>

\* a TradeExecutor method is called while the kill switch is active
Halted ==
    /\ risk.kill_switch_active
    /\ cyc.pc = "idle"

\* The collaborators of these calls work: a failing broker or table could
\* only keep an order from being placed.
HaltedExecuteOpportunity ==
    /\ Halted
    /\ \E city \in Cities, bo \in {NoOverride} \cup Overrides, w \in {World} :
         \E opp \in OppsOf(city) :
           \E r \in {execute_opportunity(w, opp, city, "single", NoBracket,
                                         bo, IOok)} :
             Commit("execute_opportunity", <<>>, r)
    /\ ExecFrame

HaltedExecuteCityOpportunities ==
    /\ Halted
    /\ \E city \in Cities, w \in {World} :
         \E opps \in OppLists(city) \cup {<<>>} :
           \E r \in {execute_city_opportunities(w, city, opps, IOok)} :
             Commit("execute_city_opportunities", <<>>, r)
    /\ ExecFrame

HaltedExecuteBracketOpportunity ==
    /\ Halted
    /\ \E city \in Cities, w \in {World} :
         \E bracket \in Brackets(city) :
           \E r \in {execute_bracket_opportunity(w, bracket, city,
                                                  IOok, IOok)} :
             Commit("execute_bracket_opportunity", <<>>, r)
    /\ ExecFrame

HaltedExecuteCityWithBracket ==
    /\ Halted
    /\ \E city \in Cities, w \in {World} :
         \E opps \in {<<o>> : o \in GoodOpps(city)} \cup {<<>>},
            brs \in {<<b>> : b \in GoodBrackets(city)} \cup {<<>>} :
           \E r \in {execute_city_with_bracket(w, city, opps, brs,
                                                IOok, IOok, IOok)} :
             Commit("execute_city_with_bracket", <<>>, r)
    /\ ExecFrame

Init ==
    /\ acct_balance = 20000
    /\ exec_balance = acct_balance
    /\ date = 1
    /\ risk = RiskInit(acct_balance, date)
    /\ db = <<>>
    /\ placed = 0
    /\ held = NoneHeld
    /\ cyc = CycIdle
    /\ thr = ThrIdle
    /\ mode \in Modes
    /\ last = NoLast

Next ==
    \/ CycleStart
    \/ CycleCitySkip
    \/ CycleCityExecute
    \/ CancelOrder
    \/ LimitSell
    \/ BalanceMove
    \/ NewDay
    \/ HaltedExecuteOpportunity
    \/ HaltedExecuteCityOpportunities
    \/ HaltedExecuteBracketOpportunity
    \/ HaltedExecuteCityWithBracket

Spec == Init /\ [][Next]_vars

\* ------------------------------------------------------------------------
\* Properties of Spec
\* ------------------------------------------------------------------------

\* C2: while the kill switch is active no step of the program places an order
\* or registers a trade, whichever execution path is taken, and the trading
\* cycle is not inside its loop over the cities; reset_daily is the only way
\* out
C2_NoTradingWhileHalted ==
    /\ [](risk.kill_switch_active => cyc.pc = "idle")
    /\ [][risk.kill_switch_active
            => /\ placed' = placed
               /\ risk'.open_position_count <= risk.open_position_count
               /\ \A c \in Cities :
                    risk'.city_exposure[c] <= risk.city_exposure[c]
               /\ risk'.open_tickers \subseteq risk.open_tickers
               /\ \A t \in Tickers : held'[t] <= held[t]
               /\ (risk'.today = risk.today => risk'.kill_switch_active)]_vars

\* with the switch active, execute_opportunity sized a trade, asked can_trade
\* and stopped there
C2_Witness ==
    /\ risk.kill_switch_active
    /\ last.op = "execute_opportunity"
    /\ last.events = <<"can_trade">>
    /\ last.ret = Nothing
    /\ placed > 0

\* C10: a failure while one city is processed aborts that city only: the
\* cycle ends without an exception and with every city processed
C10_CityFailureIsolated ==
    (last.op = "trading_cycle" /\ last.args[1] = "done")
        => (~last.raised /\ last.args[2] = Cities)

register_trade_step(rs, pc, tmp, a) ==
    CASE pc = "read_count" ->
           [rs |-> rs, pc |-> "write_count", tmp |-> rs.open_position_count]
      [] pc = "write_count" ->
           [rs |-> [rs EXCEPT !.open_position_count = tmp + 1],
            pc |-> "read_exposure", tmp |-> 0]
      [] pc = "read_exposure" ->
           [rs |-> rs, pc |-> "write_exposure", tmp |-> rs.city_exposure[a[2]]]
      [] pc = "write_exposure" ->
           [rs |-> [rs EXCEPT !.city_exposure[a[2]] = tmp + a[3]],
            pc |-> "tickers", tmp |-> 0]
      [] pc = "tickers" ->
           [rs |-> [rs EXCEPT !.open_tickers = @ \cup {a[4]}],
            pc |-> "done", tmp |-> 0]

\* reset_daily(current_balance) on day a[3], one assignment at a time;
\* a = <<"reset_daily", current_balance, today, NoTicker>>
reset_daily_step(rs, pc, tmp, a) ==
    CASE pc = "read_count" ->  \* _today, _day_start_balance, _current_balance
           [rs |-> [rs EXCEPT !.today = a[3], !.day_start_balance = a[2],
                              !.current_balance = a[2]],
            pc |-> "kill", tmp |-> 0]
      [] pc = "kill" ->
           [rs |-> [rs EXCEPT !.kill_switch_active = FALSE],
            pc |-> "write_count", tmp |-> 0]
      [] pc = "write_count" ->
           [rs |-> [rs EXCEPT !.open_position_count = 0],
            pc |-> "write_exposure", tmp |-> 0]
      [] pc = "write_exposure" ->
           [rs |-> [rs EXCEPT !.city_exposure = [c \in Cities |-> 0]],
            pc |-> "tickers", tmp |-> 0]
      [] pc = "tickers" ->
           [rs |-> [rs EXCEPT !.open_tickers = {}], pc |-> "done", tmp |-> 0]

\* close_position(city, dollar_risk, market_ticker), one read or write of an
\* attribute at a time; b = <<city, dollar_risk, ticker>>
close_position_step(rs, pc, tmp, b) ==
    CASE pc = "read_count" ->
           [rs |-> rs, pc |-> "write_count", tmp |-> rs.open_position_count]
      [] pc = "write_count" ->
           [rs |-> [rs EXCEPT !.open_position_count = Max(0, tmp - 1)],
            pc |-> "read_exposure", tmp |-> 0]
      [] pc = "read_exposure" ->
           [rs |-> rs, pc |-> "write_exposure", tmp |-> rs.city_exposure[b[1]]]
      [] pc = "write_exposure" ->
           [rs |-> [rs EXCEPT !.city_exposure[b[1]] = Max(0, tmp - b[2])],
            pc |-> "tickers", tmp |-> 0]
      [] pc = "tickers" ->
           [rs |-> [rs EXCEPT !.open_tickers = @ \ {b[3]}],
            pc |-> "done", tmp |-> 0]

\* dollar_risk of the trades, in mills
ConcRisks == {100, 250}

\* the calls the scheduler thread can be in: the registration of an order
\* the broker accepted for a trade that can_trade allowed, or the reset of a
\* new day
SchedulerCalls ==
    {<<"register_trade", x[1][1], x[2], x[1]>> :
        x \in {y \in Tickers \X ConcRisks :
                 /\ placed < MaxTrades
                 /\ can_trade(risk, y[1][1], y[2], risk.current_balance,
                              y[1])[1]}}
      \cup {<<"reset_daily", b, risk.today + 1, NoTicker>> :
              b \in {x \in AcctBalances : risk.today < MaxDate}}

\* the calls the API thread can be in: the close of a position that is open
ApiCalls ==
    {<<x[1][1], x[2], x[1]>> : x \in risk.open_tickers \X ConcRisks}

ConcFrame ==
    UNCHANGED <<exec_balance, acct_balance, date, db, held, cyc, mode, last>>

\* orders accepted by the broker, after the scheduler entered the call a
PlacedAfter(a) == IF a[1] = "register_trade" THEN placed + 1 ELSE placed

\* both threads enter their calls
ConcBoth ==
    /\ thr.pcA = "idle" /\ thr.pcB = "idle"
    /\ \E a \in SchedulerCalls, b \in ApiCalls :
         /\ thr' = [pcA |-> "read_count", pcB |-> "read_count", tmpA |-> 0,
                    tmpB |-> 0, argA |-> a, argB |-> b, base |-> <<risk>>]
         /\ placed' = PlacedAfter(a)
    /\ UNCHANGED risk
    /\ ConcFrame

\* one thread runs a call while the other is outside the class
ConcAlone ==
    /\ thr.pcA = "idle" /\ thr.pcB = "idle"
    /\ \/ \E a \in SchedulerCalls :
            /\ risk' = IF a[1] = "register_trade"
                       THEN register_trade(risk, a[2], a[3], a[4])
                       ELSE reset_daily(risk, a[2], a[3])
            /\ placed' = PlacedAfter(a)
       \/ \E b \in ApiCalls :
            /\ risk' = close_position(risk, b[1], b[2], b[3])
            /\ UNCHANGED placed
    /\ UNCHANGED thr
    /\ ConcFrame

SchedulerStep ==
    /\ thr.pcA \notin {"idle", "done"}
    /\ LET n == IF thr.argA[1] = "register_trade"
                THEN register_trade_step(risk, thr.pcA, thr.tmpA, thr.argA)
                ELSE reset_daily_step(risk, thr.pcA, thr.tmpA, thr.argA)
       IN  /\ risk' = n.rs
           /\ thr' = [thr EXCEPT !.pcA = n.pc, !.tmpA = n.tmp]
    /\ UNCHANGED placed
    /\ ConcFrame

ApiStep ==
    /\ thr.pcB \notin {"idle", "done"}
    /\ LET n == close_position_step(risk, thr.pcB, thr.tmpB, thr.argB)
       IN  /\ risk' = n.rs
           /\ thr' = [thr EXCEPT !.pcB = n.pc, !.tmpB = n.tmp]
    /\ UNCHANGED placed
    /\ ConcFrame

\* both calls have returned
ConcReturn ==
    /\ thr.pcA = "done" /\ thr.pcB = "done"
    /\ thr' = ThrIdle
    /\ UNCHANGED <<risk, placed>>
    /\ ConcFrame

InitConc ==
    /\ acct_balance = 20000
    /\ exec_balance = acct_balance
    /\ date = 1
    /\ risk = RiskInit(acct_balance, date)
    /\ db = <<>>
    /\ placed = 0
    /\ held = NoneHeld
    /\ cyc = CycIdle
    /\ thr = ThrIdle
    /\ mode = "live"
    /\ last = NoLast

NextConc ==
    \/ ConcBoth
    \/ ConcAlone
    \/ SchedulerStep
    \/ ApiStep
    \/ ConcReturn

SpecConc == InitConc /\ [][NextConc]_vars

\* the scheduler's call and the API's call run one after the other
SchedulerCall(rs, a) ==
    IF a[1] = "register_trade" THEN register_trade(rs, a[2], a[3], a[4])
    ELSE reset_daily(rs, a[2], a[3])
ApiCall(rs, b) == close_position(rs, b[1], b[2], b[3])
SerialResults ==
    {ApiCall(SchedulerCall(thr.base[1], thr.argA), thr.argB),
     SchedulerCall(ApiCall(thr.base[1], thr.argB), thr.argA)}

\* C9: when a register_trade or reset_daily of the scheduler thread and a
\* close_position of the API thread have both returned, the open-position
\* count, every city's exposure and the open-ticker set are what running the
\* two calls in one of the two serial orders gives
C9_Serializable ==
    (thr.pcA = "done" /\ thr.pcB = "done")
        => \E s \in SerialResults :
             /\ risk.open_position_count = s.open_position_count
             /\ risk.city_exposure = s.city_exposure
             /\ risk.open_tickers = s.open_tickers

\* ------------------------------------------------------------------------
\* SpecSettle: the ways a trade gets resolved.  Trades are opened by
\* execute_city_opportunities and resolved by the two API handlers and by
\* PortfolioTracker.record_trade_pnl.
\* ------------------------------------------------------------------------

\* contract counts handed to record_trade_pnl
SettleCounts == {1, 2}

\* PortfolioTracker.record_trade_pnl(trade_id, timestamp, resolved_yes,
\* cost_per_contract, count): [db, paper_balance, pnl]; cost in cents, money
\* in mills.  The RiskManager is not among the tracker's collaborators.
record_trade_pnl(table, paper_balance, trading_mode, trade_id, resolved_yes, cost_per_contract, count, db_outcome) ==
    LET pnl == IF resolved_yes THEN (100 - cost_per_contract) * count * 10
               ELSE 0 - cost_per_contract * count * 10
    IN  [db |-> IF db_outcome = "ok" THEN mark_trade_resolved(table, trade_id)
                ELSE table,
         paper_balance |-> IF trading_mode = "paper" THEN paper_balance + pnl
                           ELSE paper_balance,
         pnl |-> pnl]

RecordTradePnl ==
    /\ \E i \in get_open_trades(db), resolved_yes \in BOOLEAN,
          count \in SettleCounts, o \in DbOutcomes :
         \E r \in {record_trade_pnl(db, acct_balance, mode, db[i].trade_id,
                                    resolved_yes, AskOf(db[i].ticker), count,
                                    o)} :
           /\ r.paper_balance - 20000 <= MaxPnl
           /\ 20000 - r.paper_balance <= MaxPnl
           /\ db' = r.db
           /\ acct_balance' = r.paper_balance
           /\ last' = Call("record_trade_pnl", <<db[i].trade_id>>,
                           Some(r.pnl))
    /\ UNCHANGED <<risk, exec_balance, date, placed, held, cyc, thr, mode>>

InitSettle == InitExec

NextSettle ==
    \/ ExecuteCityOpportunities
    \/ CancelOrder
    \/ LimitSell
    \/ RecordTradePnl

SpecSettle == InitSettle /\ [][NextSettle]_vars

\* C11: whenever a step marks a trade resolved (settlement through
\* record_trade_pnl, cancellation through cancel_order, sale through
\* limit_sell), the same step calls close_position for the trade's city,
\* dollar_risk and ticker: the RiskState after the step is the one before
\* it with that position closed.
C11_ResolutionClosesPosition ==
    [][\A i \in 1..Len(db) :
          (~db[i].resolved /\ db'[i].resolved)
            => risk' = close_position(risk, db[i].city, db[i].dollar_risk,
                                      db[i].ticker)]_vars

\* ------------------------------------------------------------------------
\* SpecBoot: main.initialize, the start of the process over whatever the
\* trades table holds
\* ------------------------------------------------------------------------

\* the rows a trades table can hold at position trade_id
BootRows(trade_id) ==
    {[trade_id |-> trade_id, trade_date |-> d, city |-> c, ticker |-> <<c, k>>,
      dollar_risk |-> dr, resolved |-> rv] :
        d \in 1..MaxDate, c \in Cities, k \in 1..2, dr \in RiskAmounts,
        rv \in BOOLEAN}
BootTables ==
    {<<>>} \cup {<<r>> : r \in BootRows(1)}
           \cup {<<r1, r2>> : r1 \in BootRows(1), r2 \in BootRows(2)}

\* what get_open_trades hands to the caller: the unresolved rows
IsOpen(row) == ~row.resolved
OpenRows(table) == SelectSeq(table, IsOpen)

\* initialize(): RiskManager(balance), then the rebuild inside try/except
initialize(table, balance, today, scan) ==
    IF scan = "ok"
    THEN rebuild_from_open_trades(RiskInit(balance, today), OpenRows(table),
                                  today)
    ELSE RiskInit(balance, today)

InitBoot ==
    /\ db \in BootTables
    /\ date \in 1..MaxDate
    /\ exec_balance = 0
    /\ acct_balance = 0
    /\ risk = RiskInit(0, date)
    /\ placed = 0
    /\ held = NoneHeld
    /\ cyc = CycIdle
    /\ thr = ThrIdle
    /\ mode \in Modes
    /\ last = NoLast

Initialize ==
    /\ \E balance \in Balances, scan \in DbOutcomes :
         /\ mode = "paper" => balance = 10000  \* STARTING_BALANCE
         /\ risk' = initialize(db, balance, date, scan)
         /\ exec_balance' = balance
         /\ acct_balance' = balance
         /\ last' = Call("initialize", <<scan, balance>>, Nothing)
    /\ UNCHANGED <<date, db, placed, held, cyc, thr, mode>>

NextBoot == Initialize

SpecBoot == InitBoot /\ [][NextBoot]_vars

\* register_trade(city, dollar_risk, ticker) called once for each of the
\* trades dated today, in the order given
RECURSIVE ReplayRegistrations(_, _, _)
ReplayRegistrations(rs, trades, today) ==
    IF trades = <<>> THEN rs
    ELSE LET t == Head(trades)
         IN  ReplayRegistrations(
                 IF t.trade_date = today
                 THEN register_trade(rs, t.city, t.dollar_risk, t.ticker)
                 ELSE rs,
                 Tail(trades), today)

\* C12: rebuild_from_open_trades on a freshly created RiskManager yields the
\* open-position count, per-city exposure and open-ticker set that
\* register_trade called once per unresolved trade dated today yields; trades
\* of any other day change nothing.
C12_RebuildIsReplay ==
    (last.op = "initialize" /\ last.args[1] = "ok") =>
        LET s == ReplayRegistrations(RiskInit(last.args[2], date),
                                     OpenRows(db), date)
        IN  /\ risk.open_position_count = s.open_position_count
            /\ risk.city_exposure = s.city_exposure
            /\ risk.open_tickers = s.open_tickers

\* a restart over one open trade of today and one open trade of another day
C12_Witness ==
    /\ last.op = "initialize" /\ last.args[1] = "ok"
    /\ Len(db) = 2
    /\ ~db[1].resolved /\ db[1].trade_date = date
    /\ ~db[2].resolved /\ db[2].trade_date # date
    /\ risk.open_position_count = 1
    /\ risk.city_exposure[db[1].city] = db[1].dollar_risk
    /\ risk.open_tickers = {db[1].ticker}

\* ------------------------------------------------------------------------
\* trading/edge.py : the bracket detector.  A market carries its bin:
\* temp_low and temp_high are Some(degrees) or Nothing.  mu is in quarters of
\* a degree, so that a bin centre (low + high) / 2 is 2 * (low + high).
\* ------------------------------------------------------------------------

\* the bounded bins of a city's event: 70-71, 72-73, 74-75; bin 4 is
\* "76 or higher"
BinLow(k) == 68 + 2 * k
BinOpp(k, p, a) ==
    [ticker |-> <<1, k>>, model_prob |-> p, ask_price |-> a,
     temp_low |-> Some(BinLow(k)),
     temp_high |-> IF k = 4 THEN Nothing ELSE Some(BinLow(k) + 1),
     is_open_low |-> FALSE, is_open_high |-> k = 4]

\* the filter at the head of find_bracket_opportunities
is_bounded(o) ==
    /\ ~o.is_open_low
    /\ ~o.is_open_high
    /\ o.temp_low # Nothing
    /\ o.temp_high # Nothing

\* bounded.sort(key=temp_low): stable, ascending
RECURSIVE insert_by_temp_low(_, _)
insert_by_temp_low(sorted, o) ==
    IF sorted = <<>> THEN <<o>>
    ELSE IF Head(sorted).temp_low[1] <= o.temp_low[1]
    THEN <<Head(sorted)>> \o insert_by_temp_low(Tail(sorted), o)
    ELSE <<o>> \o sorted

RECURSIVE sort_by_temp_low(_, _)
sort_by_temp_low(done, rest) ==
    IF rest = <<>> THEN done
    ELSE sort_by_temp_low(insert_by_temp_low(done, Head(rest)), Tail(rest))

\* the BracketOpportunity built from two legs
BracketOf(lo, hi) ==
    [legs |-> <<lo, hi>>,
     combined_model_prob |-> lo.model_prob + hi.model_prob,
     total_ask |-> lo.ask_price + hi.ask_price,
     total_net_edge |-> Plus(net_edge(lo), net_edge(hi)),
     expected_value |-> (lo.model_prob + hi.model_prob)
                          - (lo.ask_price + hi.ask_price)]

\* the body of the loop without the test that the pair straddles mu
bracket_candidate_any_mean(mu, lo, hi) ==
    /\ hi.temp_low[1] = lo.temp_high[1] + 1
    /\ Geq(BracketOf(lo, hi).total_net_edge, <<BRACKET_MIN_EDGE, 1>>)
    /\ BracketOf(lo, hi).expected_value > 0

\* the body of the loop with gate 2 strict: total_net_edge > BRACKET_MIN_EDGE
bracket_candidate_strict_edge(mu, lo, hi) ==
    /\ hi.temp_low[1] = lo.temp_high[1] + 1
    /\ 2 * (lo.temp_low[1] + lo.temp_high[1]) <= mu
    /\ mu <= 2 * (hi.temp_low[1] + hi.temp_high[1])
    /\ Gt(BracketOf(lo, hi).total_net_edge, <<BRACKET_MIN_EDGE, 1>>)
    /\ BracketOf(lo, hi).expected_value > 0

\* the body of the loop over the adjacent pairs: the pair is appended
bracket_candidate(mu, lo, hi) ==
    LET lo_centre == 2 * (lo.temp_low[1] + lo.temp_high[1])
        hi_centre == 2 * (hi.temp_low[1] + hi.temp_high[1])
    IN  /\ hi.temp_low[1] = lo.temp_high[1] + 1
        /\ lo_centre <= mu /\ mu <= hi_centre
        /\ Geq(BracketOf(lo, hi).total_net_edge, <<BRACKET_MIN_EDGE, 1>>)
        /\ BracketOf(lo, hi).expected_value > 0

\* for i in range(len(bounded) - 1), from index i on
RECURSIVE bracket_results(_, _, _)
bracket_results(mu, bounded, i) ==
    IF i > Len(bounded) - 1 THEN <<>>
    ELSE (IF bracket_candidate(mu, bounded[i], bounded[i + 1])
          THEN <<BracketOf(bounded[i], bounded[i + 1])>> ELSE <<>>)
           \o bracket_results(mu, bounded, i + 1)

\* results.sort(key=expected_value, reverse=True): stable
RECURSIVE insert_by_ev(_, _)
insert_by_ev(sorted, b) ==
    IF sorted = <<>> THEN <<b>>
    ELSE IF Head(sorted).expected_value >= b.expected_value
    THEN <<Head(sorted)>> \o insert_by_ev(Tail(sorted), b)
    ELSE <<b>> \o sorted

RECURSIVE sort_by_ev(_, _)
sort_by_ev(done, rest) ==
    IF rest = <<>> THEN done
    ELSE sort_by_ev(insert_by_ev(done, Head(rest)), Tail(rest))

\* find_bracket_opportunities(dist, opportunities, city): the list returned
find_bracket_opportunities(mu, opportunities) ==
    LET bounded == SelectSeq(opportunities,
                             LAMBDA o : is_bounded(o) /\ has_edge(o))
    IN  IF Len(bounded) < 2 THEN <<>>
        ELSE sort_by_ev(<<>>,
                        bracket_results(mu, sort_by_temp_low(<<>>, bounded), 1))

\* ------------------------------------------------------------------------
\* SpecBracket: the bracket detector applied to the opportunities of a city
\* ------------------------------------------------------------------------

\* <<model_prob, ask>> of a bin: net edge 4%, 5% and 15% after the 5% fee
Quotes == {<<29, 20>>, <<30, 20>>, <<40, 20>>}
\* dist.mu in quarters of a degree: 70.5, 71.5, 72.5, 74.5
Mus == {282, 286, 290, 298}

\* the evaluated opportunities of the bins present, in the order of the bins
RECURSIVE BinLists(_)
BinLists(k) ==
    IF k = 0 THEN {<<>>}
    ELSE LET shorter == BinLists(k - 1)
             here == IF k = 4 THEN {BinOpp(4, 40, 20)}
                     ELSE {BinOpp(k, q[1], q[2]) : q \in Quotes}
         IN  shorter \cup {Append(l, o) : l \in shorter, o \in here}

InitBracket == InitExec

FindBracketOpportunities ==
    /\ \E mu \in Mus, evaluated \in BinLists(4) :
         \E opportunities \in {find_opportunities(evaluated)} :
           last' = Call("find_bracket_opportunities", <<mu, opportunities>>,
                        find_bracket_opportunities(mu, opportunities))
    /\ UNCHANGED <<risk, exec_balance, acct_balance, date, db, placed, held,
                   cyc, thr, mode>>

NextBracket == FindBracketOpportunities

SpecBracket == InitBracket /\ [][NextBracket]_vars

\* what the claims say of a pair: both bins bounded, each leg's net edge at
\* least MIN_EDGE_THRESHOLD, the bins adjacent, the mean between the midpoints
Bounded(o) == ~o.is_open_low /\ ~o.is_open_high
Eligible(mu, lo, hi) ==
    /\ Bounded(lo) /\ Bounded(hi)
    /\ has_edge(lo) /\ has_edge(hi)
    /\ hi.temp_low[1] = lo.temp_high[1] + 1
    /\ 2 * (lo.temp_low[1] + lo.temp_high[1]) <= mu
    /\ mu <= 2 * (hi.temp_low[1] + hi.temp_high[1])
SummedEdge(lo, hi) == Plus(net_edge(lo), net_edge(hi))
ExpectedValue(lo, hi) ==
    lo.model_prob + hi.model_prob - lo.ask_price - hi.ask_price
Accepted(mu, lo, hi) ==
    /\ Eligible(mu, lo, hi)
    /\ Geq(SummedEdge(lo, hi), <<BRACKET_MIN_EDGE, 1>>)
    /\ ExpectedValue(lo, hi) > 0
Given(opps) == {opps[i] : i \in 1..Len(opps)}

\* C18: the Bracket Detector accepts a pair only if both are bounded bins
\* with net_edge >= MIN_EDGE_THRESHOLD, the upper bin's lower bound is the
\* lower bin's upper bound + 1, the mean lies between the two midpoints, the
\* summed net edge is >= BRACKET_MIN_EDGE and combined probability - total
\* ask > 0; an adjacent, mean-straddling pair whose legs each clear
\* MIN_EDGE_THRESHOLD but whose summed net edge is below BRACKET_MIN_EDGE is
\* rejected.
C18_BracketGates ==
    last.op = "find_bracket_opportunities" =>
        LET mu == last.args[1]
            opps == last.args[2]
            res == last.ret
        IN  /\ \A i \in 1..Len(res) :
                 /\ res[i].legs[1] \in Given(opps)
                 /\ res[i].legs[2] \in Given(opps)
                 /\ Accepted(mu, res[i].legs[1], res[i].legs[2])
            /\ \A lo \in Given(opps), hi \in Given(opps) :
                 (/\ Bounded(lo) /\ Bounded(hi)
                  /\ Eligible(mu, lo, hi)
                  /\ ~Geq(SummedEdge(lo, hi), <<BRACKET_MIN_EDGE, 1>>))
                   => \A i \in 1..Len(res) : res[i].legs # <<lo, hi>>

\* the detector has accepted a pair whose legs sit exactly on
\* MIN_EDGE_THRESHOLD, with the mean on the lower midpoint, and passed over
\* an adjacent pair that has a leg below the threshold
C18_Witness ==
    /\ last.op = "find_bracket_opportunities"
    /\ Len(last.ret) = 1
    /\ last.args[1] = 282
    /\ last.ret[1].legs = <<BinOpp(1, 30, 20), BinOpp(2, 30, 20)>>
    /\ BinOpp(3, 29, 20) \in Given(last.args[2])

\* C19: for every distribution and every opportunity list, the Bracket
\* Detector returns at most one BracketOpportunity, and when it returns one
\* it is the accepted candidate with the highest expected value.
C19_AtMostOneBest ==
    last.op = "find_bracket_opportunities" =>
        LET mu == last.args[1]
            opps == last.args[2]
            res == last.ret
        IN  /\ Len(res) <= 1
            /\ Len(res) = 1 =>
                 \A lo \in Given(opps), hi \in Given(opps) :
                   (Bounded(lo) /\ Bounded(hi) /\ Accepted(mu, lo, hi))
                     => res[1].expected_value >= ExpectedValue(lo, hi)

\* ------------------------------------------------------------------------
\* SpecSizing: the position sizer applied to probabilities, asks and balances
\* ------------------------------------------------------------------------

\* model probabilities and ask prices in percent; the asks include values
\* outside (0, 1)
KellyProbs == {10 * i : i \in 0..10} \cup {11, 12, 25}
KellyAsks == {10 * i : i \in 0..10} \cup {0 - 10, 25, 110}

InitSizing == InitExec

KellyFraction ==
    /\ \E model_prob \in KellyProbs, ask_price \in KellyAsks :
         last' = Call("kelly_fraction", <<model_prob, ask_price>>,
                      kelly_fraction(model_prob, ask_price))
    /\ UNCHANGED <<risk, exec_balance, acct_balance, date, db, placed, held,
                   cyc, thr, mode>>

\* the sizer called on floats: kelly_frac, ask_price and the balance are the
\* floats nearest to the decimal values, max_dollar_risk is the city's whole
\* budget MAX_POSITION_PCT_PER_CITY * balance or 30 dollars
SizeKellys == {float(1, 100), float(MAX_POSITION_PCT_PER_CITY, 100)}
SizeBalances == {float(b, 1) : b \in {50, 260, 450, 850, 900, 1000}}
SizeAsks == {float(a, 100) : a \in {5, 15, 25, 30, 50}}
SizeBudgets(current_balance) ==
    {float(30, 1),
     float_mul(float(MAX_POSITION_PCT_PER_CITY, 100), current_balance)}

ComputeContractCount ==
    /\ \E kelly_frac \in SizeKellys, current_balance \in SizeBalances,
          ask_price \in SizeAsks :
         \E max_dollar_risk \in SizeBudgets(current_balance) :
           last' = Call("compute_contract_count",
                        <<kelly_frac, current_balance, ask_price,
                          max_dollar_risk>>,
                        compute_contract_count_float(kelly_frac,
                            current_balance, ask_price, max_dollar_risk))
    /\ UNCHANGED <<risk, exec_balance, acct_balance, date, db, placed, held,
                   cyc, thr, mode>>

NextSizing == KellyFraction \/ ComputeContractCount

SpecSizing == InitSizing /\ [][NextSizing]_vars

\* C21: kelly_fraction returns 0 whenever model_probability <= ask (and
\* whenever ask <= 0 or ask >= 1), and for every input its result lies in
\* [0, MAX_POSITION_PCT_PER_CITY].
C21_KellyBounded ==
    last.op = "kelly_fraction" =>
        LET model_prob == last.args[1]
            ask_price == last.args[2]
            k == last.ret
        IN  /\ k[2] > 0
            /\ (model_prob <= ask_price \/ ask_price <= 0 \/ ask_price >= 100)
                  => k[1] = 0
            /\ Geq(k, <<0, 1>>)
            /\ Geq(<<MAX_POSITION_PCT_PER_CITY, 100>>, k)

\* a probability far above the ask: a quarter of full Kelly would be 13.9%
\* of the bankroll, and the fraction returned is the cap
C21_Witness ==
    /\ last.op = "kelly_fraction"
    /\ last.args = <<60, 10>>
    /\ last.ret = <<MAX_POSITION_PCT_PER_CITY, 100>>

C23_SizeWithinRisk ==
    /\ compute_contract_count_float(float(3, 100), float(1000, 1),
                                    float(25, 100), float(30, 1))
         = <<120, float(30, 1)>>
    /\ last.op = "compute_contract_count" =>
        LET ask_price == last.args[3]
            max_dollar_risk == last.args[4]
            dollar_risk ==
                dollar_risk_float(last.args[1], last.args[2], max_dollar_risk)
            count == last.ret[1]
            actual_risk == last.ret[2]
        IN  /\ Geq(float_value(dollar_risk),
                   <<count * float_value(ask_price)[1],
                     float_value(ask_price)[2]>>)
            /\ Gt(<<(count + 1) * float_value(ask_price)[1],
                    float_value(ask_price)[2]>>, float_value(dollar_risk))
            /\ float_leq(actual_risk, dollar_risk)
            /\ float_leq(dollar_risk, max_dollar_risk)

\* what C24 says of one step; a CycleStart step is the daily reset check,
\* the balance sync and the kill-switch check of a trading cycle
ResetOncePerDate ==
    /\ (CycleStart /\ risk.today # date) =>
         /\ risk'.today = date
         /\ risk'.day_start_balance = acct_balance
         /\ risk'.open_position_count = 0
         /\ risk'.open_tickers = {}
         /\ \A c \in Cities : risk'.city_exposure[c] = 0
         /\ ~risk'.kill_switch_active
    /\ (CycleStart /\ risk.today = date) =>
         /\ risk'.today = risk.today
         /\ risk'.day_start_balance = risk.day_start_balance
         /\ risk'.open_position_count = risk.open_position_count
         /\ risk'.open_tickers = risk.open_tickers
         /\ risk'.city_exposure = risk.city_exposure
         /\ (risk.kill_switch_active => risk'.kill_switch_active)
    /\ (risk.kill_switch_active /\ risk.today = date /\ date' = date) =>
         risk'.kill_switch_active
    /\ ~CycleStart => risk'.today = risk.today

\* C24: trading_cycle calls reset_daily exactly when the RiskManager's
\* tracked date differs from the current date, before the kill-switch check
\* and any trade: a cycle that starts on a new date leaves the tracked date
\* on the current date, the day-start balance on the synced balance, no
\* position, no exposure and the kill switch checked against the new
\* day-start balance; a cycle that starts on the tracked date resets
\* nothing; and no step on the date on which the kill switch was triggered
\* clears it.
C24_ResetOncePerDate == [][ResetOncePerDate]_vars

\* on the second date the cycle has reset the day, a later cycle of that
\* date has triggered the kill switch, and a cycle has been skipped with
\* the switch still active
C24_Witness ==
    /\ date = 2
    /\ risk.today = 2
    /\ risk.kill_switch_active
    /\ last.op = "trading_cycle"
    /\ last.args[1] = "skipped"

\* ------------------------------------------------------------------------
\* SpecGates: the price and liquidity gates of evaluate_market
\* ------------------------------------------------------------------------

\* KalshiOrderbook.spread(): ask - bid, or None when a side is empty;
\* best_ask and best_bid are Nothing or Some(cents)
spread(best_ask, best_bid) ==
    IF best_ask # Nothing /\ best_bid # Nothing
    THEN Some(best_ask[1] - best_bid[1]) ELSE Nothing

\* evaluate_market up to the volume gate: the gate that returns None, or
\* "pass"
evaluate_market_gates(best_ask, best_bid, volume) ==
    IF best_ask = Nothing THEN "near_trivial"
    ELSE IF best_ask[1] <= 1 \/ best_ask[1] >= 99 THEN "near_trivial"
    ELSE IF best_ask[1] < MIN_ASK_TO_TRADE THEN "ask_low"
    ELSE IF best_ask[1] > MAX_ASK_TO_TRADE THEN "ask_high"
    ELSE LET s == spread(best_ask, best_bid)
             \* spread = ob.spread() or 1.0: None and 0.0 are both falsy
             spread_or_1 == IF s = Nothing \/ s = Some(0) THEN 100 ELSE s[1]
         IN  IF spread_or_1 > MAX_SPREAD_TO_TRADE THEN "spread"
             ELSE IF volume < MIN_VOLUME_TO_TRADE THEN "volume"
             ELSE "pass"

\* the best ask and best bid of an order book, in cents, and a market's
\* volume
BookAsks == {Nothing} \cup {Some(a) : a \in {1, 4, 5, 30, 50, 62, 63, 95, 96, 99}}
BookBids == {Nothing} \cup {Some(b) : b \in {20, 30, 50, 55}}
Volumes == {0, 4, 5, 100}

InitGates == InitExec

EvaluateMarket ==
    /\ \E best_ask \in BookAsks, best_bid \in BookBids, volume \in Volumes :
         last' = Call("evaluate_market", <<best_ask, best_bid, volume>>,
                      Some(evaluate_market_gates(best_ask, best_bid, volume)))
    /\ UNCHANGED <<risk, exec_balance, acct_balance, date, db, placed, held,
                   cyc, thr, mode>>

NextGates == EvaluateMarket

SpecGates == InitGates /\ [][NextGates]_vars

\* C25: a bin that passes the ask-price gates is rejected by the Edge
\* Evaluator's liquidity gate exactly when ask - bid > MAX_SPREAD or volume <
\* MIN_VOLUME; a bin with ask - bid <= MAX_SPREAD (ask = bid included) and
\* volume >= MIN_VOLUME is not rejected by this gate. Stated of the books
\* that have a bid.
C25_LiquidityGate ==
    (/\ last.op = "evaluate_market"
     /\ last.ret[1] \notin {"near_trivial", "ask_low", "ask_high"}
     /\ last.args[2] # Nothing) =>
        LET ask == last.args[1][1]
            bid == last.args[2][1]
            volume == last.args[3]
        IN  last.ret[1] \in {"spread", "volume"}
              <=> (ask - bid > MAX_SPREAD_TO_TRADE
                   \/ volume < MIN_VOLUME_TO_TRADE)

\* the k-th market of a city is the bin BinLow(k)..BinLow(k)+1: an
\* opportunity of the cycle as the Bracket Detector reads it, and a bracket
\* it returns as the executor reads it
cycle_bin(o) ==
    [BinOpp(o.ticker[2], o.model_prob, o.ask_price) EXCEPT !.ticker = o.ticker]
cycle_brackets(mu, viable) ==
    LET found == find_bracket_opportunities(mu,
                     [i \in 1..Len(viable) |-> cycle_bin(viable[i])])
    IN  [i \in 1..Len(found) |->
           <<Opp(found[i].legs[1].ticker, found[i].legs[1].model_prob),
             Opp(found[i].legs[2].ticker, found[i].legs[2].model_prob)>>]

\* what C26 says of one step: an iteration of the cycle on a city whose
\* viable opportunities hold a bracket, all collaborators working, does what
\* execute_city_with_bracket does with the viable list and the brackets
CycleExecutesBracket ==
    cyc.pc = "city" =>
      \A viable \in CycleViable(cyc.idx), mu \in Mus :
        (/\ CycleStep(cyc.idx, FALSE, cycle_city(World, cyc.idx, viable, IOok))
         /\ cycle_brackets(mu, viable) # <<>>)
          => CycleStep(cyc.idx, FALSE,
                       execute_city_with_bracket(World, cyc.idx, viable,
                           cycle_brackets(mu, viable), IOok, IOok, IOok))

\* C26: in every trading cycle, for each city that yields opportunities,
\* the city's accepted opportunities are passed to the Bracket Detector, and
\* a bracket it returns is sized, risk-gated and executed in that same cycle.
C26_CycleExecutesBracket == [][CycleExecutesBracket]_vars

\* the open trades of the table on a ticker, and the dollar_risk of the open
\* trades of a city, rows i..Len(table)
OpenOn(table, t) == {i \in get_open_trades(table) : table[i].ticker = t}
RECURSIVE OpenRisk(_, _, _)
OpenRisk(table, city, i) ==
    IF i > Len(table) THEN 0
    ELSE (IF ~table[i].resolved /\ table[i].city = city
          THEN table[i].dollar_risk ELSE 0) + OpenRisk(table, city, i + 1)

\* C27: in every state reachable through executed trades, closures from
\* cancel_order / limit_sell and daily resets, the open-position count equals
\* the number of tickers in the open-ticker set, and each city's exposure
\* equals the sum of dollar_risk of that city's trades that were registered
\* and have not been closed. The exposure is compared on the first date,
\* before any reset, in the states where every registered trade has its
\* record in the table, so that the open records are the trades registered
\* and not closed.
C27_RiskStateMatchesPositions ==
    /\ risk.open_position_count = Cardinality(risk.open_tickers)
    /\ (/\ date = 1
        /\ \A t \in Tickers : held[t] = Cardinality(OpenOn(db, t)))
         => \A c \in Cities : risk.city_exposure[c] = OpenRisk(db, c, 1)

\* ------------------------------------------------------------------------
\* SpecRestart: the trading cycle of Spec in a process that can be restarted
\* ------------------------------------------------------------------------

\* the process ends and main.initialize() runs again: a new RiskManager on
\* the balance read at start-up, rebuilt from the open trades of the table;
\* the table and the orders at the broker outlive the process
Restart ==
    /\ \E scan \in DbOutcomes :
         \E balance \in {IF mode = "paper" THEN 20000 ELSE acct_balance} :
           /\ risk' = initialize(db, balance, date, scan)
           /\ exec_balance' = balance
           /\ acct_balance' = balance
           /\ last' = Call("initialize", <<scan, balance>>, Nothing)
    /\ cyc' = CycIdle
    /\ UNCHANGED <<date, db, placed, held, thr, mode>>

NextRestart == Next \/ Restart

SpecRestart == Init /\ [][NextRestart]_vars

\* what C28 says of one step
RestartKeepsDay ==
    (Restart /\ risk.today = date) =>
        /\ risk.kill_switch_active => risk'.kill_switch_active
        /\ risk'.day_start_balance = risk.day_start_balance

\* C28: a process restart on the same calendar day (a new RiskManager
\* followed by rebuild_from_open_trades) preserves an active kill switch and
\* the day-start balance: on a day on which the kill switch has triggered,
\* no order is placed after the restart either.
C28_RestartKeepsKillSwitch == [][RestartKeepsDay]_vars

\* C29: after a process restart, the rebuilt open-ticker set contains the
\* ticker of every order that was placed today and has not been closed, so
\* the duplicate-market guard never allows a second order on such a ticker
\* after the restart. Stated of the first date, on which every order was
\* placed today, and of the restarts whose read of the table succeeded.
C29_RebuildKnowsOpenTickers ==
    date = 1 =>
        /\ (last.op = "initialize" /\ last.args[1] = "ok") =>
              \A t \in Tickers : held[t] > 0 => t \in risk.open_tickers
        /\ \A t \in Tickers : held[t] <= 1

====
